---- MODULE Spec2Model ----
(***************************************************************************)
(* Hotel guest management client (React) against a PocketBase "guests"    *)
(* collection.  Three routed views, of which exactly one is mounted:      *)
(*   /guests      GuestList    (fetch all, open a guest, add a guest)      *)
(*   /guests/new  AddGuest     (create)                                    *)
(*   /guests/:id  GuestDetail  (fetch one, edit, update, delete)           *)
(* A network call is issued by a handler and completes in a later step;   *)
(* its continuation (the code after the await) runs in that later step.   *)
(* A call whose view has been unmounted meanwhile still completes: its    *)
(* state setters do nothing, its effect on the store and its navigate()   *)
(* still happen.                                                           *)
(*                                                                         *)
(* Strings are sequences of one-character strings, so that trim() is      *)
(* computed.  Time is counted in milliseconds and observed every          *)
(* TimeStep; a timer fires when it is due (no timer is late).             *)
(***************************************************************************)
EXTENDS Naturals, Integers, Sequences, FiniteSets, Bags, TLC

\* ---------------------------------------------------------------- bounds
MaxGuests == 2      \* ids the store ever assigns
MaxCalls == 2       \* create/update/delete calls in flight at once
MaxLatency == 2000  \* a fetch or update returns within this many ms
MaxFetched == 3     \* records of a fetched list whose view is searched

\* ------------------------------------------------------------- constants
MIN_LOADING_MS == 1000
TimeStep == MIN_LOADING_MS \div 2

\* --------------------------------------------------------------- strings
SP == " "
E == << >>
Null == << "null" >>          \* a field sent as null

RECURSIVE TrimStart(_)
TrimStart(s) == IF s # E /\ Head(s) = SP THEN TrimStart(Tail(s)) ELSE s

RECURSIVE TrimEnd(_)
TrimEnd(s) ==
  IF s # E /\ s[Len(s)] = SP THEN TrimEnd(SubSeq(s, 1, Len(s) - 1)) ELSE s

Trim(s) == TrimEnd(TrimStart(s))

\* a || b on strings: the empty string and null are falsy
OrElse(a, b) == IF a = E \/ a = Null THEN b ELSE a

\* String.prototype.toLowerCase on the letters in use
ToLowerChar(c) ==
  CASE c = "A" -> "a" [] c = "B" -> "b" [] c = "X" -> "x" [] OTHER -> c

ToLowerCase(s) == [ k \in 1 .. Len(s) |-> ToLowerChar(s[k]) ]

\* String.prototype.includes: t occurs in s as a substring
Includes(s, t) ==
  \E i \in 0 .. Len(s) - Len(t) : SubSeq(s, i + 1, i + Len(t)) = t

\* String.prototype.localeCompare: -1, 0 or 1.  The space sorts before the
\* letters, the letters alphabetically whatever their case; strings equal up
\* to case are ordered by case, the lower-case letter first.
Alphabet == << SP, "a", "b", "d", "p", "q", "x", "y" >>

Rank(c) == CHOOSE k \in 1 .. Len(Alphabet) : Alphabet[k] = ToLowerChar(c)

CaseRank(c) == IF c = ToLowerChar(c) THEN 0 ELSE 1

RECURSIVE Primary(_, _)
Primary(s, t) ==
  IF s = E \/ t = E THEN (IF s # E THEN 1 ELSE IF t # E THEN -1 ELSE 0)
  ELSE IF Rank(Head(s)) < Rank(Head(t)) THEN -1
  ELSE IF Rank(Head(s)) > Rank(Head(t)) THEN 1
  ELSE Primary(Tail(s), Tail(t))

RECURSIVE Tertiary(_, _)
Tertiary(s, t) ==
  IF s = E \/ t = E THEN 0
  ELSE IF CaseRank(Head(s)) < CaseRank(Head(t)) THEN -1
  ELSE IF CaseRank(Head(s)) > CaseRank(Head(t)) THEN 1
  ELSE Tertiary(Tail(s), Tail(t))

LocaleCompare(s, t) ==
  IF Primary(s, t) # 0 THEN Primary(s, t) ELSE Tertiary(s, t)

\* The values the user types into each field.  A session exercises one group
\* of fields (blank and padded names, blank, padded and clashing emails, or
\* one optional field) and types a fixed valid value into the others.
FieldNames ==
  { "first_name", "last_name", "email", "phone", "address", "date_of_birth" }

PlainKeys ==
  [ first_name |-> { << "a" >> }, last_name |-> { << "b" >> },
    email |-> { << "x" >> }, phone |-> { E }, address |-> { E },
    date_of_birth |-> { E }, search |-> { E, << "A" >> } ]

NameKeys ==
  [ PlainKeys EXCEPT !.first_name = { E, << SP >>, << SP, "a", SP >> },
                     !.last_name = { E, << SP >>, << "b" >> } ]

EmailKeys ==
  [ PlainKeys EXCEPT
      !.email = { E, << SP >>, << "x" >>, << SP, "x" >>, << "y" >> } ]

PhoneKeys == [ PlainKeys EXCEPT !.phone = { E, << SP, "p" >> } ]

AddressKeys == [ PlainKeys EXCEPT !.address = { E, << "q", SP >> } ]

DateKeys == [ PlainKeys EXCEPT !.date_of_birth = { E, << "d" >> } ]

Keyboards == { NameKeys, EmailKeys, PhoneKeys, AddressKeys, DateKeys }

\* ----------------------------------------------------------------- types
NoError == "null"
ErrFetchAll == "Failed to load guests. Check console for details."
ErrNoId == "No guest ID provided"
ErrNotFound == "Guest not found"
ErrFetchOne == "Failed to load guest details"
ErrRequired == "First name, last name, and email are required."
ErrEmailInUse == "Email is already in use"
ErrUpdate == "Failed to update guest"
ErrDelete == "Failed to delete guest. Please try again."
ErrEmailInUseOrInvalid == "Email is already in use or invalid."
ErrCreateInput == "Failed to add guest. Please check your input and try again."
ErrCreateConnection ==
  "Failed to add guest. Please check your connection and try again."

\* useState initial value of AddGuest's guestData
EmptyDraft ==
  [ first_name |-> E, last_name |-> E, email |-> E, phone |-> E,
    address |-> E, date_of_birth |-> E ]

\* GuestDetail's guest = null (ids of the store start at 1)
NullGuest ==
  [ id |-> 0, first_name |-> E, last_name |-> E, email |-> E, phone |-> E,
    address |-> E, date_of_birth |-> E ]

\* ---------------------------------------------------------- remote store
\* the unique index on guests.email
EmailTaken(st, email, self) == \E r \in st : r.email = email /\ r.id # self

Ids(st) == { r.id : r \in st }
Lookup(st, i) == CHOOSE r \in st : r.id = i

\* status of create: 200 stored, 400 with data.email on a taken email
CreateStatus(st, data) == IF EmailTaken(st, data.email, 0) THEN 400 ELSE 200

Stored(i, data) ==
  [ id |-> i, first_name |-> data.first_name, last_name |-> data.last_name,
    email |-> data.email, phone |-> data.phone, address |-> data.address,
    date_of_birth |-> data.date_of_birth ]

UpdateStatus(st, i, data) ==
  IF i \notin Ids(st) THEN 404
  ELSE IF EmailTaken(st, data.email, i) THEN 400 ELSE 200

\* records in creation order, as getFullList returns them
RECURSIVE FullList(_)
FullList(st) ==
  IF st = {} THEN << >>
  ELSE LET r == CHOOSE x \in st : \A y \in st : x.id <= y.id
       IN << r >> \o FullList(st \ { r })

\* the map from a fetched record to a Guest (field || "")
ToGuest(r) ==
  [ id |-> r.id, first_name |-> OrElse(r.first_name, E),
    last_name |-> OrElse(r.last_name, E), email |-> OrElse(r.email, E),
    phone |-> OrElse(r.phone, E), address |-> OrElse(r.address, E),
    date_of_birth |-> OrElse(r.date_of_birth, E) ]

MapGuests(rs) == [ k \in 1 .. Len(rs) |-> ToGuest(rs[k]) ]

\* `${g.first_name} ${g.last_name}`
FullName(g) == g.first_name \o << SP >> \o g.last_name

\* mutant: the search term is compared as typed
MatchesAsTyped(g, term) ==
  \/ Includes(ToLowerCase(FullName(g)), term)
  \/ Includes(ToLowerCase(g.email), term)

\* the predicate of filteredGuests' filter
Matches(g, term) ==
  \/ Includes(ToLowerCase(FullName(g)), ToLowerCase(term))
  \/ Includes(ToLowerCase(g.email), ToLowerCase(term))

\* the comparator of filteredGuests' sort
Compare(a, b, by) ==
  IF by = "name"
  THEN LocaleCompare(ToLowerCase(FullName(a)), ToLowerCase(FullName(b)))
  ELSE LocaleCompare(ToLowerCase(a.email), ToLowerCase(b.email))

\* mutant: an unstable sort, g goes before the records it is equal to
InsertBeforeEqual(gs, g, by) ==
  LET before == SelectSeq(gs, LAMBDA h : Compare(h, g, by) < 0)
      after == SelectSeq(gs, LAMBDA h : Compare(h, g, by) >= 0)
  IN before \o << g >> \o after

\* Array.prototype.sort is stable: g goes before the first record that the
\* comparator puts after it
RECURSIVE InsertSorted(_, _, _)
InsertSorted(gs, g, by) ==
  IF gs = << >> THEN << g >>
  ELSE IF Compare(Head(gs), g, by) > 0 THEN << g >> \o gs
  ELSE << Head(gs) >> \o InsertSorted(Tail(gs), g, by)

RECURSIVE Sort(_, _)
Sort(gs, by) ==
  IF gs = << >> THEN << >>
  ELSE InsertSorted(Sort(SubSeq(gs, 1, Len(gs) - 1), by), gs[Len(gs)], by)

\* useMemo(() => guests.filter(...).sort(...), [guests, searchTerm, sortBy])
FilteredGuests(gs, term, by) ==
  Sort(SelectSeq(gs, LAMBDA g : Matches(g, term)), by)

\* ---------------------------------------------------------- calls in flight
\* op: "list" | "get" | "create" | "update" | "delete"; live: the view that
\* issued the call is still mounted
Call(op, i, data, live) == [ op |-> op, id |-> i, data |-> data, live |-> live ]

Mutations == { "create", "update", "delete" }

InFlight(cs, ops, live) ==
  { c \in BagToSet(cs) : c.op \in ops /\ c.live = live }

CountOf(cs, ops, live) ==
  LET S == InFlight(cs, ops, live)
      RECURSIVE Sum(_)
      Sum(T) == IF T = {} THEN 0
                ELSE LET c == CHOOSE x \in T : TRUE
                     IN CopiesIn(c, cs) + Sum(T \ { c })
  IN Sum(S)

Issue(cs, c) == cs (+) SetToBag({ c })
Complete(cs, c) == cs (-) SetToBag({ c })

\* unmounting a view: its calls stay in flight, their setters become no-ops
Orphan(cs) ==
  LET S == { [ c EXCEPT !.live = FALSE ] : c \in BagToSet(cs) }
  IN [ o \in S |-> CopiesIn(o, cs) + CopiesIn([ o EXCEPT !.live = TRUE ], cs) ]

\* ------------------------------------------------------------------ state
VARIABLES
  store,          \* the guests collection: a set of stored records
  nextId,         \* the id the store assigns to the next created record
  calls,          \* bag of network calls in flight
  route,          \* "list" | "add" | "detail": the mounted view
  id,             \* useParams().id of /guests/:id (0: none)
  showLoading,    \* location.state?.showLoading || false
  initialGuest,   \* location.state?.guest is defined
  guests,         \* GuestList: guests
  searchTerm,     \* GuestList: searchTerm
  sortBy,         \* GuestList: sortBy ("name" | "email")
  guest,          \* GuestDetail: guest
  guestData,      \* AddGuest: guestData
  loading,        \* loading of the mounted view
  updating,       \* GuestDetail: updating
  error,          \* error of the mounted view
  effect,         \* the mounted view has a useEffect run pending
  clock,          \* Date.now() - start of the running fetch or update
  elapsed,        \* const elapsed of the finally block (-1: not reached)
  loadingTimer,   \* ms until setLoading(false) fires (-1: no timer)
  updatingTimer,  \* ms until setUpdating(false) fires (-1: no timer)
  dialog,         \* answer to the window.confirm of the last step, if any
  typed           \* the values the user types in this session, by field

remote == << store, nextId, typed >>
viewState ==
  << route, id, showLoading, initialGuest, guests, searchTerm, sortBy, guest,
     guestData, loading,
     updating, error, effect, clock, elapsed, loadingTimer, updatingTimer >>
vars == << store, nextId, calls, viewState, dialog, typed >>

Typed(name) == typed[name]

\* what the mounted view renders
Screen ==
  CASE route = "list" ->
         IF loading THEN "list.loading"
         ELSE IF error # NoError THEN "list.error" ELSE "list.table"
    [] route = "add" -> "add.form"
    [] route = "detail" ->
         IF loading THEN "detail.loading"
         ELSE IF updating THEN "detail.updating"
         ELSE IF guest = NullGuest THEN "detail.error" ELSE "detail.form"

\* the rows of the table
filteredGuests == FilteredGuests(guests, searchTerm, sortBy)

\* what the list view shows under its search bar: the rows, or "No guests
\* found." when there is none
Presented ==
  IF Screen = "list.table"
  THEN (IF Len(filteredGuests) = 0 THEN "list.empty" ELSE "list.rows")
  ELSE Screen

\* ------------------------------------------------------------- mounting
Fresh ==
  /\ guests' = << >>
  /\ searchTerm' = E
  /\ sortBy' = "name"
  /\ guestData' = EmptyDraft
  /\ updating' = FALSE
  /\ error' = NoError
  /\ clock' = 0
  /\ elapsed' = -1
  /\ loadingTimer' = -1
  /\ updatingTimer' = -1
  /\ dialog' = "none"

MountList(sl) ==
  /\ route' = "list"
  /\ id' = 0
  /\ showLoading' = sl
  /\ initialGuest' = FALSE
  /\ guest' = NullGuest
  /\ loading' = sl
  /\ effect' = TRUE
  /\ Fresh

MountAdd ==
  /\ route' = "add"
  /\ id' = 0
  /\ showLoading' = FALSE
  /\ initialGuest' = FALSE
  /\ guest' = NullGuest
  /\ loading' = FALSE
  /\ effect' = FALSE
  /\ Fresh

MountDetail(i, g) ==
  /\ route' = "detail"
  /\ id' = i
  /\ showLoading' = FALSE
  /\ initialGuest' = (g # NullGuest)
  /\ guest' = g
  /\ loading' = (g = NullGuest)
  /\ effect' = TRUE
  /\ Fresh

\* navigate("/guests", { state: { showLoading: sl } }) with cs left in flight:
\* on /guests already, GuestList stays mounted and only the location changes
NavigateList(sl, cs) ==
  IF route = "list"
  THEN /\ showLoading' = sl
       /\ calls' = cs
       /\ dialog' = "none"
       /\ UNCHANGED << route, id, initialGuest, guests, guest, guestData,
                       searchTerm, sortBy,
                       loading, updating, error, effect, clock, elapsed,
                       loadingTimer, updatingTimer >>
  ELSE /\ MountList(sl)
       /\ calls' = Orphan(cs)

InitStores ==
  { {},
    { [ id |-> 1, first_name |-> << "a" >>, last_name |-> << "b" >>,
        email |-> << "x" >>, phone |-> E, address |-> E,
        date_of_birth |-> Null ] } }

\* the page is loaded on one of the three routes, without location state
Init ==
  /\ store \in InitStores
  /\ nextId = Cardinality(store) + 1
  /\ calls = EmptyBag
  /\ route \in { "list", "add", "detail" }
  /\ id \in IF route = "detail" THEN 1 .. MaxGuests ELSE { 0 }
  /\ showLoading = FALSE
  /\ initialGuest = FALSE
  /\ guests = << >>
  /\ searchTerm = E
  /\ sortBy = "name"
  /\ guest = NullGuest
  /\ guestData = EmptyDraft
  /\ loading = (route = "detail")
  /\ updating = FALSE
  /\ error = NoError
  /\ effect = (route # "add")
  /\ clock = 0
  /\ elapsed = -1
  /\ loadingTimer = -1
  /\ updatingTimer = -1
  /\ dialog = "none"
  /\ typed \in Keyboards

\* mutant: the whole floor is waited after the call, whatever it took
RemainingWhole == MIN_LOADING_MS

\* the finally blocks: setTimeout(clear, remaining > 0 ? remaining : 0)
Remaining == IF MIN_LOADING_MS - clock > 0 THEN MIN_LOADING_MS - clock ELSE 0

\* ------------------------------------------------------------- GuestList
\* useEffect(() => { fetchGuests() }, []) up to the await
ListEffect ==
  /\ dialog' = "none"
  /\ route = "list"
  /\ effect
  /\ effect' = FALSE
  /\ loading' = TRUE
  /\ clock' = 0
  /\ calls' = Issue(calls, Call("list", 0, << >>, TRUE))
  /\ UNCHANGED << remote, route, id, showLoading, initialGuest, guests, guest,
                  searchTerm, sortBy,
                  guestData, updating, error, elapsed, loadingTimer,
                  updatingTimer >>

\* mutant: a failed getFullList is sent again
FetchAllDoneRetry(c, ok) ==
  /\ dialog' = "none"
  /\ c \in BagToSet(calls)
  /\ c.op = "list"
  /\ calls' = IF ok THEN Complete(calls, c) ELSE calls
  /\ IF ok THEN guests' = MapGuests(FullList(store)) /\ error' = NoError
     ELSE error' = ErrFetchAll /\ UNCHANGED guests
  /\ elapsed' = clock
  /\ loadingTimer' = IF ok THEN MIN_LOADING_MS - clock ELSE -1
  /\ UNCHANGED << remote, route, id, showLoading, initialGuest, guest,
                  searchTerm, sortBy,
                  guestData, loading, updating, effect, clock, updatingTimer >>

\* getFullList returns (ok) or throws; then the finally block
FetchAllDone(c, ok) ==
  /\ dialog' = "none"
  /\ c \in BagToSet(calls)
  /\ c.op = "list"
  /\ calls' = Complete(calls, c)
  /\ IF c.live
     THEN /\ IF ok
             THEN /\ guests' = MapGuests(FullList(store))
                  /\ error' = NoError
             ELSE /\ error' = ErrFetchAll
                  /\ UNCHANGED guests
          /\ elapsed' = clock
          /\ loadingTimer' = Remaining
          /\ UNCHANGED << remote, route, id, showLoading, initialGuest, guest,
                          searchTerm, sortBy,
                          guestData, loading, updating, effect, clock,
                          updatingTimer >>
     ELSE UNCHANGED << remote, viewState >>

\* the timer of a fetch fires: setLoading(false)
LoadingTimeout ==
  /\ dialog' = "none"
  /\ loadingTimer = 0
  /\ loading' = FALSE
  /\ loadingTimer' = -1
  /\ clock' = 0
  /\ elapsed' = -1
  /\ UNCHANGED << remote, calls, route, id, showLoading, initialGuest, guests,
                  searchTerm, sortBy,
                  guest, guestData, updating, error, effect, updatingTimer >>

\* <Link to={`/guests/${guest.id}`} state={{ guest }}>View</Link>
ClickView(k) ==
  /\ Screen = "list.table"
  /\ ~effect
  /\ k \in 1 .. Len(filteredGuests)
  /\ MountDetail(filteredGuests[k].id, filteredGuests[k])
  /\ calls' = Orphan(calls)
  /\ UNCHANGED remote

\* <Link to="/guests/new">Add New Guest</Link>
ClickAdd ==
  /\ Screen = "list.table"
  /\ ~effect
  /\ MountAdd
  /\ calls' = Orphan(calls)
  /\ UNCHANGED remote

\* handleSearchChange: setSearchTerm(e.target.value)
HandleSearchChange(term) ==
  /\ dialog' = "none"
  /\ Screen = "list.table"
  /\ ~effect
  /\ term \in Typed("search")
  /\ term # searchTerm
  /\ searchTerm' = term
  /\ UNCHANGED << remote, calls, route, id, showLoading, initialGuest, guests,
                  sortBy, guest, guestData, loading, updating, error, effect,
                  clock, elapsed, loadingTimer, updatingTimer >>

\* clearSearch, the button shown while searchTerm is not empty
ClearSearch ==
  /\ dialog' = "none"
  /\ Screen = "list.table"
  /\ ~effect
  /\ searchTerm # E
  /\ searchTerm' = E
  /\ UNCHANGED << remote, calls, route, id, showLoading, initialGuest, guests,
                  sortBy, guest, guestData, loading, updating, error, effect,
                  clock, elapsed, loadingTimer, updatingTimer >>

\* handleSortChange: setSortBy(e.target.value)
HandleSortChange(by) ==
  /\ dialog' = "none"
  /\ Screen = "list.table"
  /\ ~effect
  /\ by \in { "name", "email" }
  /\ by # sortBy
  /\ sortBy' = by
  /\ UNCHANGED << remote, calls, route, id, showLoading, initialGuest, guests,
                  searchTerm, guest, guestData, loading, updating, error,
                  effect, clock, elapsed, loadingTimer, updatingTimer >>

\* -------------------------------------------------------------- AddGuest
\* handleChange: setGuestData({ ...guestData, [name]: value })
AddChange(name, v) ==
  /\ dialog' = "none"
  /\ route = "add"
  /\ ~loading
  /\ v \in Typed(name)
  /\ v # guestData[name]
  /\ guestData' = [ guestData EXCEPT ![name] = v ]
  /\ UNCHANGED << remote, calls, route, id, showLoading, initialGuest, guests,
                  searchTerm, sortBy,
                  guest, loading, updating, error, effect, clock, elapsed,
                  loadingTimer, updatingTimer >>

\* mutant: the required fields are tested without trim()
MissingRequiredNoTrim(g) ==
  g.first_name = E \/ g.last_name = E \/ g.email = E

\* the required-fields test of handleSubmit and handleUpdate
MissingRequired(g) ==
  \/ Trim(g.first_name) = E
  \/ Trim(g.last_name) = E
  \/ Trim(g.email) = E

\* mutant: the optional fields are sent as the draft holds them
CreatePayloadAsTyped(g) ==
  [ first_name |-> Trim(g.first_name), last_name |-> Trim(g.last_name),
    email |-> Trim(g.email), phone |-> g.phone, address |-> g.address,
    date_of_birth |-> g.date_of_birth ]

\* the body of pb.collection("guests").create(...)
CreatePayload(g) ==
  [ first_name |-> Trim(g.first_name), last_name |-> Trim(g.last_name),
    email |-> Trim(g.email), phone |-> Trim(g.phone),
    address |-> Trim(g.address),
    date_of_birth |-> OrElse(g.date_of_birth, Null) ]

\* handleSubmit up to the await (or to the return of a failed validation)
HandleSubmit ==
  /\ dialog' = "none"
  /\ route = "add"
  /\ ~loading
  /\ IF MissingRequired(guestData)
     THEN /\ error' = ErrRequired
          /\ loading' = FALSE
          /\ UNCHANGED calls
     ELSE /\ CountOf(calls, Mutations, TRUE) + CountOf(calls, Mutations, FALSE)
               < MaxCalls
          /\ nextId + CountOf(calls, { "create" }, TRUE)
               + CountOf(calls, { "create" }, FALSE) <= MaxGuests
          /\ loading' = TRUE
          /\ error' = NoError
          /\ calls' = Issue(calls, Call("create", 0,
                                        << CreatePayload(guestData) >>, TRUE))
  /\ UNCHANGED << remote, route, id, showLoading, initialGuest, guests, guest,
                  searchTerm, sortBy,
                  guestData, updating, effect, clock, elapsed, loadingTimer,
                  updatingTimer >>

\* mutant: every rejection with a response is reported as the email's
CreateErrorAnyData(status) ==
  IF status = 0 THEN ErrCreateConnection ELSE ErrEmailInUseOrInvalid

\* the error message of handleSubmit's catch block
CreateError(status) ==
  IF status = 0 THEN ErrCreateConnection
  ELSE IF status = 400 THEN ErrEmailInUseOrInvalid ELSE ErrCreateInput

\* create returns or throws; fail: 0 none, 1 no response, 2 rejected for
\* another reason than the email
CreateDone(c, fail) ==
  /\ c \in BagToSet(calls)
  /\ c.op = "create"
  /\ LET data == c.data[1]
         status == CASE fail = 1 -> 0
                     [] fail = 2 -> 422
                     [] OTHER -> CreateStatus(store, data)
     IN IF status = 200
        THEN /\ store' = store \cup { Stored(nextId, data) }
             /\ nextId' = nextId + 1
             /\ UNCHANGED typed
             /\ NavigateList(FALSE, Complete(calls, c))
        ELSE /\ calls' = Complete(calls, c)
             /\ dialog' = "none"
             /\ UNCHANGED remote
             /\ IF c.live
                THEN /\ error' = CreateError(status)
                     /\ loading' = FALSE
                     /\ UNCHANGED << route, id, showLoading, initialGuest,
                                     searchTerm, sortBy,
                                     guests, guest, guestData, updating,
                                     effect, clock, elapsed, loadingTimer,
                                     updatingTimer >>
                ELSE UNCHANGED viewState

\* handleCancel: navigate("/guests") once the confirm is accepted
HandleCancel(confirm) ==
  /\ route = "add"
  /\ ~loading
  /\ UNCHANGED remote
  /\ IF confirm
     THEN NavigateList(FALSE, calls)
     ELSE /\ dialog' = "no"
          /\ UNCHANGED << calls, route, id, showLoading, initialGuest, guests,
                          searchTerm, sortBy,
                          guest, guestData, loading, updating, error, effect,
                          clock, elapsed, loadingTimer, updatingTimer >>

\* ----------------------------------------------------------- GuestDetail
\* mutant: the effect lacks "if (guest) return"
DetailEffectAlways ==
  /\ dialog' = "none"
  /\ route = "detail"
  /\ effect
  /\ effect' = FALSE
  /\ loading' = TRUE
  /\ clock' = 0
  /\ calls' = Issue(calls, Call("get", id, << >>, TRUE))
  /\ UNCHANGED << remote, route, id, showLoading, initialGuest, guests, guest,
                  searchTerm, sortBy,
                  guestData, updating, error, elapsed, loadingTimer,
                  updatingTimer >>

\* useEffect(..., [id, guest]) up to the await of fetchGuest
DetailEffect ==
  /\ dialog' = "none"
  /\ route = "detail"
  /\ effect
  /\ effect' = FALSE
  /\ IF guest # NullGuest
     THEN UNCHANGED << calls, loading, error, clock >>
     ELSE IF id = 0
     THEN /\ error' = ErrNoId
          /\ loading' = FALSE
          /\ UNCHANGED << calls, clock >>
     ELSE /\ loading' = TRUE
          /\ clock' = 0
          /\ calls' = Issue(calls, Call("get", id, << >>, TRUE))
          /\ UNCHANGED error
  /\ UNCHANGED << remote, route, id, showLoading, initialGuest, guests, guest,
                  searchTerm, sortBy,
                  guestData, updating, elapsed, loadingTimer, updatingTimer >>

\* the error message of fetchGuest's catch block
FetchOneError(status) == IF status = 404 THEN ErrNotFound ELSE ErrFetchOne

\* getOne returns or throws (fail: no response); then the finally block
FetchOneDone(c, fail) ==
  /\ dialog' = "none"
  /\ c \in BagToSet(calls)
  /\ c.op = "get"
  /\ calls' = Complete(calls, c)
  /\ LET status == IF fail THEN 0
                   ELSE IF c.id \in Ids(store) THEN 200 ELSE 404
     IN IF c.live
        THEN /\ IF status = 200
                THEN /\ guest' = ToGuest(Lookup(store, c.id))
                     /\ error' = NoError
                     /\ effect' = TRUE
                ELSE /\ error' = FetchOneError(status)
                     /\ UNCHANGED << guest, effect >>
             /\ elapsed' = clock
             /\ loadingTimer' = Remaining
             /\ UNCHANGED << remote, route, id, showLoading, initialGuest,
                             searchTerm, sortBy,
                             guests, guestData, loading, updating, clock,
                             updatingTimer >>
        ELSE UNCHANGED << remote, viewState >>

\* handleChange: setGuest({ ...guest, [name]: value })
DetailChange(name, v) ==
  /\ dialog' = "none"
  /\ Screen = "detail.form"
  /\ ~effect
  /\ v \in Typed(name)
  /\ v # guest[name]
  /\ guest' = [ guest EXCEPT ![name] = v ]
  /\ effect' = TRUE
  /\ UNCHANGED << remote, calls, route, id, showLoading, initialGuest, guests,
                  searchTerm, sortBy,
                  guestData, loading, updating, error, clock, elapsed,
                  loadingTimer, updatingTimer >>

\* the body of pb.collection("guests").update(guest.id, ...)
UpdatePayload(g) ==
  [ first_name |-> Trim(g.first_name), last_name |-> Trim(g.last_name),
    email |-> Trim(g.email), phone |-> OrElse(Trim(g.phone), E),
    address |-> OrElse(Trim(g.address), E),
    date_of_birth |-> OrElse(g.date_of_birth, Null) ]

\* mutant: handleUpdate sends the edited copy without the required-fields test
HandleUpdateUnchecked ==
  /\ dialog' = "none"
  /\ Screen = "detail.form"
  /\ ~effect
  /\ CountOf(calls, Mutations, TRUE) + CountOf(calls, Mutations, FALSE)
       < MaxCalls
  /\ updating' = TRUE
  /\ error' = NoError
  /\ clock' = 0
  /\ calls' = Issue(calls, Call("update", guest.id,
                                << UpdatePayload(guest) >>, TRUE))
  /\ UNCHANGED << remote, route, id, showLoading, initialGuest, guests,
                  searchTerm, sortBy, guest, guestData, loading, effect,
                  elapsed, loadingTimer, updatingTimer >>

\* handleUpdate up to the await (or to the return of a failed validation)
HandleUpdate ==
  /\ dialog' = "none"
  /\ Screen = "detail.form"
  /\ ~effect
  /\ IF MissingRequired(guest)
     THEN /\ error' = ErrRequired
          /\ UNCHANGED << calls, updating, clock >>
     ELSE /\ CountOf(calls, Mutations, TRUE) + CountOf(calls, Mutations, FALSE)
               < MaxCalls
          /\ updating' = TRUE
          /\ error' = NoError
          /\ clock' = 0
          /\ calls' = Issue(calls, Call("update", guest.id,
                                        << UpdatePayload(guest) >>, TRUE))
  /\ UNCHANGED << remote, route, id, showLoading, initialGuest, guests, guest,
                  searchTerm, sortBy,
                  guestData, loading, effect, elapsed, loadingTimer,
                  updatingTimer >>

\* the error message of handleUpdate's catch block
UpdateError(status) == IF status = 400 THEN ErrEmailInUse ELSE ErrUpdate

\* mutant: setUpdating(false) is scheduled after a successful update only
UpdateDoneNoFinally(c, fail) ==
  /\ c \in BagToSet(calls)
  /\ c.op = "update"
  /\ LET data == c.data[1]
         status == IF fail THEN 0 ELSE UpdateStatus(store, c.id, data)
     IN IF status = 200
        THEN /\ store' = { r \in store : r.id # c.id }
                           \cup { Stored(c.id, data) }
             /\ UNCHANGED << nextId, typed >>
             /\ NavigateList(TRUE, Complete(calls, c))
        ELSE /\ calls' = Complete(calls, c)
             /\ dialog' = "none"
             /\ UNCHANGED remote
             /\ IF c.live
                THEN /\ error' = UpdateError(status)
                     /\ elapsed' = clock
                     /\ UNCHANGED << route, id, showLoading, initialGuest,
                                     guests, searchTerm, sortBy, guest,
                                     guestData, loading, updating, effect,
                                     clock, loadingTimer, updatingTimer >>
                ELSE UNCHANGED viewState

\* update returns or throws (fail: no response); then the finally block
UpdateDone(c, fail) ==
  /\ c \in BagToSet(calls)
  /\ c.op = "update"
  /\ LET data == c.data[1]
         status == IF fail THEN 0 ELSE UpdateStatus(store, c.id, data)
     IN IF status = 200
        THEN /\ store' = { r \in store : r.id # c.id }
                           \cup { Stored(c.id, data) }
             /\ UNCHANGED << nextId, typed >>
             /\ NavigateList(TRUE, Complete(calls, c))
        ELSE /\ calls' = Complete(calls, c)
             /\ dialog' = "none"
             /\ UNCHANGED remote
             /\ IF c.live
                THEN /\ error' = UpdateError(status)
                     /\ elapsed' = clock
                     /\ updatingTimer' = Remaining
                     /\ UNCHANGED << route, id, showLoading, initialGuest,
                                     searchTerm, sortBy,
                                     guests, guest, guestData, loading,
                                     updating, effect, clock, loadingTimer >>
                ELSE UNCHANGED viewState

\* the timer of an update fires: setUpdating(false)
UpdatingTimeout ==
  /\ dialog' = "none"
  /\ updatingTimer = 0
  /\ updating' = FALSE
  /\ updatingTimer' = -1
  /\ clock' = 0
  /\ elapsed' = -1
  /\ UNCHANGED << remote, calls, route, id, showLoading, initialGuest, guests,
                  searchTerm, sortBy,
                  guest, guestData, loading, error, effect, loadingTimer >>

\* mutant: the answer to the confirm is not tested
HandleDeleteUnconfirmed(confirm) ==
  /\ Screen = "detail.form"
  /\ ~effect
  /\ dialog' = IF confirm THEN "yes" ELSE "no"
  /\ calls' = Issue(calls, Call("delete", guest.id, << >>, TRUE))
  /\ UNCHANGED << remote, route, id, showLoading, initialGuest, guests, guest,
                  searchTerm, sortBy,
                  guestData, loading, updating, error, effect, clock, elapsed,
                  loadingTimer, updatingTimer >>

\* handleDelete up to the await (or to the return of a declined confirm)
HandleDelete(confirm) ==
  /\ Screen = "detail.form"
  /\ ~effect
  /\ IF confirm
     THEN /\ CountOf(calls, Mutations, TRUE) + CountOf(calls, Mutations, FALSE)
               < MaxCalls
          /\ dialog' = "yes"
          /\ calls' = Issue(calls, Call("delete", guest.id, << >>, TRUE))
     ELSE /\ dialog' = "no"
          /\ UNCHANGED calls
  /\ UNCHANGED << remote, route, id, showLoading, initialGuest, guests, guest,
                  searchTerm, sortBy,
                  guestData, loading, updating, error, effect, clock, elapsed,
                  loadingTimer, updatingTimer >>

\* delete returns or throws (fail: no response)
DeleteDone(c, fail) ==
  /\ c \in BagToSet(calls)
  /\ c.op = "delete"
  /\ LET status == IF fail THEN 0
                   ELSE IF c.id \in Ids(store) THEN 204 ELSE 404
     IN IF status = 204
        THEN /\ store' = { r \in store : r.id # c.id }
             /\ UNCHANGED << nextId, typed >>
             /\ NavigateList(TRUE, Complete(calls, c))
        ELSE /\ calls' = Complete(calls, c)
             /\ dialog' = "none"
             /\ UNCHANGED remote
             /\ IF c.live
                THEN /\ error' = ErrDelete
                     /\ UNCHANGED << route, id, showLoading, initialGuest,
                                     searchTerm, sortBy,
                                     guests, guest, guestData, loading,
                                     updating, effect, clock, elapsed,
                                     loadingTimer, updatingTimer >>
                ELSE UNCHANGED viewState

\* the Back button of the form: navigate("/guests", { state: { showLoading } })
ClickBack ==
  /\ Screen = "detail.form"
  /\ ~effect
  /\ NavigateList(TRUE, calls)
  /\ UNCHANGED remote

\* the Back button of the "Guest not found" screen: navigate("/guests")
ClickBackError ==
  /\ Screen = "detail.error"
  /\ ~effect
  /\ NavigateList(FALSE, calls)
  /\ UNCHANGED remote

\* ------------------------------------------------------------------ time
Measured == { "list", "get", "update" }

Timed ==
  \/ InFlight(calls, Measured, TRUE) # {}
  \/ loadingTimer >= 0
  \/ updatingTimer >= 0

Due(t) == t >= 0 /\ t < TimeStep

\* TimeStep ms pass while a fetch or update is measured or a timer is pending
Tick ==
  /\ dialog' = "none"
  /\ Timed
  /\ ~Due(loadingTimer)
  /\ ~Due(updatingTimer)
  /\ InFlight(calls, Measured, TRUE) # {} => clock + TimeStep <= MaxLatency
  /\ clock' = clock + TimeStep
  /\ loadingTimer' = IF loadingTimer >= 0 THEN loadingTimer - TimeStep ELSE -1
  /\ updatingTimer' =
       IF updatingTimer >= 0 THEN updatingTimer - TimeStep ELSE -1
  /\ UNCHANGED << remote, calls, route, id, showLoading, initialGuest, guests,
                  searchTerm, sortBy,
                  guest, guestData, loading, updating, error, effect, elapsed >>

\* ------------------------------------------------------------------ next
AllCalls == BagToSet(calls)

Next ==
  \/ ListEffect
  \/ \E c \in AllCalls, ok \in BOOLEAN : FetchAllDone(c, ok)
  \/ LoadingTimeout
  \/ \E k \in 1 .. MaxGuests : ClickView(k)
  \/ ClickAdd
  \/ \E term \in Typed("search") : HandleSearchChange(term)
  \/ ClearSearch
  \/ \E by \in { "name", "email" } : HandleSortChange(by)
  \/ \E name \in FieldNames : \E v \in Typed(name) : AddChange(name, v)
  \/ HandleSubmit
  \/ \E c \in AllCalls, fail \in 0 .. 2 : CreateDone(c, fail)
  \/ \E confirm \in BOOLEAN : HandleCancel(confirm)
  \/ DetailEffect
  \/ \E c \in AllCalls, fail \in BOOLEAN : FetchOneDone(c, fail)
  \/ \E name \in FieldNames : \E v \in Typed(name) : DetailChange(name, v)
  \/ HandleUpdate
  \/ \E c \in AllCalls, fail \in BOOLEAN : UpdateDone(c, fail)
  \/ UpdatingTimeout
  \/ \E confirm \in BOOLEAN : HandleDelete(confirm)
  \/ \E c \in AllCalls, fail \in BOOLEAN : DeleteDone(c, fail)
  \/ ClickBack
  \/ ClickBackError
  \/ Tick

Spec == Init /\ [][Next]_vars

\* Every pending effect runs, every fetch, create and update returns, every
\* timer fires and time passes.  What the user does is left free.  At most
\* one effect is pending, and no time passes while a timer is due, so one
\* condition stands for the effects and one for the timers and the clock.
Fairness ==
  /\ WF_vars(ListEffect \/ DetailEffect)
  /\ WF_vars(\E c \in AllCalls, ok \in BOOLEAN : FetchAllDone(c, ok))
  /\ WF_vars(\E c \in AllCalls, fail \in BOOLEAN : FetchOneDone(c, fail))
  /\ WF_vars(\E c \in AllCalls, fail \in 0 .. 2 : CreateDone(c, fail))
  /\ WF_vars(\E c \in AllCalls, fail \in BOOLEAN : UpdateDone(c, fail))
  /\ WF_vars(LoadingTimeout \/ UpdatingTimeout \/ Tick)

SpecFair == Spec /\ Fairness

\* ------------------------------------------------- the list view at rest
\* The list view after a completed fetch, with nothing in flight: the user
\* searches and sorts.  The fetched records have names and emails that are
\* equal up to case, prefixes of each other, or contain a space.
People ==
  { [ first_name |-> << "a" >>, last_name |-> << "b" >>, email |-> << "x" >> ],
    [ first_name |-> << "A" >>, last_name |-> << "b" >>, email |-> << "y" >> ],
    [ first_name |-> << "b" >>, last_name |-> << "a" >>, email |-> << "X" >> ],
    [ first_name |-> << "a", SP, "b" >>, last_name |-> << "a" >>,
      email |-> << "b" >> ] }

\* the record of person q created as the k-th of the collection
Person(k, q) ==
  [ id |-> k, first_name |-> q.first_name, last_name |-> q.last_name,
    email |-> q.email, phone |-> E, address |-> E, date_of_birth |-> Null ]

\* the collections of at most MaxFetched records of distinct people
Registers ==
  UNION { { f \in [ 1 .. n -> People ] :
              \A i, j \in 1 .. n : f[i] = f[j] => i = j } :
          n \in 0 .. MaxFetched }

SearchKeys ==
  [ PlainKeys EXCEPT
      !.search = { E, << "a" >>, << "A" >>, << "B" >>, << SP >>,
                   << "a", SP, "b" >>, << "b", SP, "a" >>, << "a", "b" >>,
                   << "X" >>, << "y" >> } ]

InitView ==
  /\ \E f \in Registers :
       /\ store = { Person(k, f[k]) : k \in 1 .. Len(f) }
       /\ nextId = Len(f) + 1
  /\ calls = EmptyBag
  /\ route = "list"
  /\ id = 0
  /\ showLoading = FALSE
  /\ initialGuest = FALSE
  /\ guests = MapGuests(FullList(store))
  /\ searchTerm = E
  /\ sortBy = "name"
  /\ guest = NullGuest
  /\ guestData = EmptyDraft
  /\ loading = FALSE
  /\ updating = FALSE
  /\ error = NoError
  /\ effect = FALSE
  /\ clock = 0
  /\ elapsed = -1
  /\ loadingTimer = -1
  /\ updatingTimer = -1
  /\ dialog = "none"
  /\ typed = SearchKeys

NextView ==
  \/ \E term \in Typed("search") : HandleSearchChange(term)
  \/ ClearSearch
  \/ \E by \in { "name", "email" } : HandleSortChange(by)

SpecView == InitView /\ [][NextView]_vars

\* ================================================================ claims
Max(a, b) == IF a >= b THEN a ELSE b

Live(ops) == CountOf(calls, ops, TRUE)

\* a live call of one of ops is in calls' and was not in calls
Issued(ops) ==
  \E c \in BagToSet(calls') :
    c.op \in ops /\ c.live /\ CopiesIn(c, calls') > CopiesIn(c, calls)

\* C1: the mounted view never has two of its own create, update or delete
\* calls outstanding at the same time.
C1_OneOutstanding == Live(Mutations) <= 1

\* C2: a fetch keeps the loading indicator on from the start of the call
\* until max(completion, start + MIN_LOADING_MS): it is on while the call is
\* out or its timer pending, the timer ends at exactly that time, and the
\* indicator goes off at no other moment.
FetchLoading == Screen \in { "list.loading", "detail.loading" }

C2_LoadingOn ==
  /\ Live({ "list", "get" }) > 0 \/ loadingTimer >= 0 => FetchLoading
  /\ loadingTimer >= 0 =>
       /\ elapsed >= 0
       /\ clock + loadingTimer = Max(elapsed, MIN_LOADING_MS)

C2_LoadingOff ==
  FetchLoading /\ ~FetchLoading' =>
    /\ loadingTimer = 0
    /\ clock = Max(elapsed, MIN_LOADING_MS)

C2_LoadingFloor == [] C2_LoadingOn /\ [][C2_LoadingOff]_vars

\* a failed fetchAll that returned after TimeStep ms, held until the floor
C2_Witness ==
  /\ route = "list"
  /\ error = ErrFetchAll
  /\ elapsed = TimeStep
  /\ clock = MIN_LOADING_MS
  /\ loadingTimer = 0

\* C3: once an update call is issued, the updating indicator stays on the
\* screen until MIN_LOADING_MS have passed since the start of the call.
C3_UpdatingFloor ==
  [][Screen = "detail.updating" /\ Screen' # "detail.updating"
       => clock >= MIN_LOADING_MS]_vars

\* C4: a detail view opened with the record of the list never has a getOne
\* call out and never shows the loading indicator, also after edits, and it
\* opens showing the record it was given.
C4_Held ==
  route = "detail" /\ initialGuest =>
    /\ Live({ "get" }) = 0
    /\ ~loading
    /\ loadingTimer = -1
    /\ guest # NullGuest
    /\ guest.id = id

C4_Opened ==
  route = "list" /\ route' = "detail" =>
    /\ initialGuest'
    /\ \E k \in 1 .. Len(guests) : guest' = guests[k]

C4_NoRefetch == [] C4_Held /\ [][C4_Opened]_vars

\* the effect has run again after an edit of the record that was passed in
C4_Witness ==
  /\ route = "detail"
  /\ initialGuest
  /\ ~effect
  /\ guest.first_name = << SP >>
  /\ guest.last_name = << "b" >>

\* C5: a create or update with a required field that is empty after trimming
\* sets the validation error, issues no call, leaves the store alone, stays
\* on the view and leaves loading and updating off.
Blank(g) ==
  \/ Trim(g.first_name) = E
  \/ Trim(g.last_name) = E
  \/ Trim(g.email) = E

Rejected ==
  /\ error' = ErrRequired
  /\ calls' = calls
  /\ store' = store
  /\ route' = route
  /\ ~loading'
  /\ ~updating'

C5_ValidationFailed ==
  [][/\ HandleSubmit /\ Blank(guestData) => Rejected
     /\ HandleUpdate /\ Blank(guest) => Rejected]_vars

\* a create with a first name of one space was turned down
C5_Witness ==
  /\ route = "add"
  /\ error = ErrRequired
  /\ guestData.first_name = << SP >>
  /\ guestData.last_name = << "b" >>
  /\ guestData.email = << "x" >>
  /\ calls = EmptyBag

\* C6: no two stored records share an email; a create or update of the
\* mounted view ends in the duplicate-email error exactly when the store
\* turned it down because another record holds the trimmed email, and then
\* the store is unchanged; an update that keeps the record's own email is
\* stored.
HeldByOther(e, i) == \E r \in store : r.email = e /\ r.id # i

C6_Unique ==
  \A r1, r2 \in store : r1.email = r2.email \/ r1.id = r2.id => r1 = r2

C6_Create ==
  \A c \in AllCalls : \A fail \in 0 .. 2 :
    CreateDone(c, fail) /\ c.live =>
      /\ error' = ErrEmailInUseOrInvalid
           <=> fail = 0 /\ HeldByOther(c.data[1].email, 0)
      /\ error' = ErrEmailInUseOrInvalid => store' = store
      /\ fail # 0 => error' \in { ErrCreateInput, ErrCreateConnection }

C6_Update ==
  \A c \in AllCalls : \A fail \in BOOLEAN :
    UpdateDone(c, fail) /\ c.live =>
      /\ error' = ErrEmailInUse
           <=> ~fail /\ c.id \in Ids(store)
                 /\ HeldByOther(c.data[1].email, c.id)
      /\ error' = ErrEmailInUse => store' = store
      /\ fail => error' = ErrUpdate
      /\ ~fail /\ c.id \in Ids(store)
           /\ Lookup(store, c.id).email = c.data[1].email
           => Stored(c.id, c.data[1]) \in store'

C7_Declined ==
  route = "detail" /\ dialog' = "no" =>
    /\ calls' = calls
    /\ store' = store
    /\ guest' = guest
    /\ error' = error
    /\ route' = "detail"
    /\ Screen' = "detail.form"

C7_Confirmed == Issued({ "delete" }) => dialog' = "yes"

C7_Confirmation == [][C7_Declined /\ C7_Confirmed]_vars

\* the delete of an edited record was declined
C7_Witness ==
  /\ route = "detail"
  /\ dialog = "no"
  /\ guest.first_name = << SP >>
  /\ Cardinality(store) = 1
  /\ calls = EmptyBag

\* C8: a failed delete call of the mounted view leaves the store and the
\* edited copy unchanged, stays on the detail view and shows the delete
\* error there.
C8_DeleteFailed ==
  [][\A c \in AllCalls : \A fail \in BOOLEAN :
       DeleteDone(c, fail) /\ c.live /\ (fail \/ c.id \notin Ids(store)) =>
         /\ store' = store
         /\ guest' = guest
         /\ route' = "detail"
         /\ error' = ErrDelete
         /\ Screen' = "detail.form"]_vars

\* C9: a successful update or delete navigates to the list with the
\* show-loading signal; the list then shows its loading indicator, not its
\* records, and has a fetchAll to run or out; a failed update or delete does
\* not navigate.
Arrived ==
  /\ route' = "list"
  /\ showLoading'
  /\ Screen' = "list.loading"
  /\ effect' \/ CountOf(calls', { "list" }, TRUE) > 0

C9_Success ==
  /\ \A c \in AllCalls : UpdateDone(c, FALSE) /\ store' # store => Arrived
  /\ \A c \in AllCalls : DeleteDone(c, FALSE) /\ store' # store => Arrived

C9_Failure ==
  \A c \in AllCalls :
    (UpdateDone(c, TRUE) \/ DeleteDone(c, TRUE)) => route' = route

C9_ListRefresh == [][C9_Success /\ C9_Failure]_vars

\* C10: nothing is retried: a step issues at most one call; a fetch is issued
\* only by the effect of an arrival and a create, update or delete only by a
\* handler of the form, never by the step in which a call returns; after a
\* failure the failed call is not out again; a failed fetchAll shows the
\* fetch error, never the table, for as long as the list is mounted.
Fetches == { "list", "get" }

C10_Quiet ==
  /\ error = ErrFetchAll => route = "list" /\ Live({ "list" }) = 0
  /\ error = ErrFetchAll => Screen \in { "list.loading", "list.error" }
  /\ error \in { ErrNotFound, ErrFetchOne } =>
       route = "detail" /\ Live({ "get" }) = 0 /\ guest = NullGuest
  /\ error \in { ErrEmailInUseOrInvalid, ErrCreateInput, ErrCreateConnection }
       => route = "add" /\ Live({ "create" }) = 0 /\ ~loading
  /\ error \in { ErrEmailInUse, ErrUpdate } => Live({ "update" }) = 0
  /\ Live(Fetches) <= 1

C10_Issue ==
  /\ BagCardinality(calls') <= BagCardinality(calls) + 1
  /\ Issued(Fetches) => effect /\ ~effect' /\ Live(Fetches) = 0
  /\ Issued(Mutations) =>
       /\ Screen \in { "add.form", "detail.form" }
       /\ BagCardinality(calls') = BagCardinality(calls) + 1

C10_Terminal ==
  error = ErrFetchAll =>
    /\ error' = ErrFetchAll
    /\ route' = "list"
    /\ ~Issued(Fetches \cup Mutations)

C10_NoRetry == [] C10_Quiet /\ [][C10_Issue /\ C10_Terminal]_vars

\* a failed fetchAll, floor over: the error is shown and nothing is out
C10_Witness ==
  /\ Screen = "list.error"
  /\ error = ErrFetchAll
  /\ loadingTimer = -1
  /\ calls = EmptyBag

\* the same letter, whatever its case
SameLetter(c, d) ==
  c = d \/ { c, d } \in { { "a", "A" }, { "b", "B" }, { "x", "X" } }

\* t occurs in s from position i on, case ignored
OccursAt(s, t, i) ==
  /\ i + Len(t) - 1 <= Len(s)
  /\ \A j \in 1 .. Len(t) : SameLetter(s[i + j - 1], t[j])

Occurs(s, t) == \E i \in 1 .. Len(s) + 1 : OccursAt(s, t, i)

\* how many times g occurs in gs
Times(gs, g) == Cardinality({ k \in 1 .. Len(gs) : gs[k] = g })

Found(g) == Occurs(FullName(g), searchTerm) \/ Occurs(g.email, searchTerm)

\* C11: the rows of the table are the fetched records whose "first_name
\* last_name" or email contains the search term, case ignored, each as many
\* times as it was fetched and nothing else; with an empty search term the
\* rows are the fetched records, none dropped or duplicated.
C11_Filter ==
  route = "list" =>
    /\ \A k \in 1 .. Len(filteredGuests) :
         Times(guests, filteredGuests[k]) > 0
    /\ \A k \in 1 .. Len(guests) :
         Times(filteredGuests, guests[k]) =
           IF Found(guests[k]) THEN Times(guests, guests[k]) ELSE 0
    /\ searchTerm = E =>
         /\ Len(filteredGuests) = Len(guests)
         /\ \A k \in 1 .. Len(guests) :
              Times(filteredGuests, guests[k]) = Times(guests, guests[k])

\* a search in capitals finds some records by their lower-case name or
\* email and hides others
C11_Witness ==
  /\ searchTerm = << "X" >>
  /\ Len(filteredGuests) > 0
  /\ Len(filteredGuests) < Len(guests)
  /\ \E k \in 1 .. Len(filteredGuests) :
       /\ ~Includes(FullName(filteredGuests[k]), searchTerm)
       /\ ~Includes(filteredGuests[k].email, searchTerm)

\* the key of the chosen sort
Key(g) == IF sortBy = "name" THEN FullName(g) ELSE g.email

\* the place of g in the fetched list
Fetched(g) == CHOOSE k \in 1 .. Len(guests) : guests[k] = g

Spaces(s) == \A k \in 1 .. Len(s) : s[k] = SP

\* C13: every stored record has a first name, a last name and an email that
\* are neither empty nor made of spaces, under an id of its own that the
\* store assigned; no create or update sends an id, a step that stores a new
\* id stores the next id of the store, and no other step changes the id of
\* a record.
C13_Records ==
  /\ \A r \in store :
       /\ ~Spaces(r.first_name) /\ ~Spaces(r.last_name) /\ ~Spaces(r.email)
       /\ r.id \in 1 .. nextId - 1
       /\ \A q \in store : q.id = r.id => q = r
  /\ \A c \in InFlight(calls, { "create", "update" }, TRUE)
               \cup InFlight(calls, { "create", "update" }, FALSE) :
       /\ "id" \notin DOMAIN c.data[1]
       /\ c.op = "update" => c.id \in 1 .. nextId - 1

C13_Ids ==
  /\ Ids(store') \subseteq Ids(store) \cup { nextId }
  /\ nextId \in Ids(store') <=> nextId' = nextId + 1
  /\ nextId' \in { nextId, nextId + 1 }
  /\ \A r \in store : \A q \in store' :
       (q.id = r.id /\ q # r) =>
         \E c \in BagToSet(calls) :
           /\ c.op = "update" /\ c.id = r.id
           /\ CopiesIn(c, calls') < CopiesIn(c, calls)
           /\ q = Stored(r.id, c.data[1])

C13_StoredRecords == [] C13_Records /\ [][C13_Ids]_vars

\* guest 1 has been given another email by an update, and a guest created
\* after it has id 2
C13_Witness ==
  \E r, q \in store :
    /\ r.id = 1 /\ r.email = << "y" >>
    /\ q.id = 2 /\ q.email = << "x" >>

\* s without its leading and trailing spaces
Strip(s) ==
  IF Spaces(s) THEN E
  ELSE LET solid == { k \in 1 .. Len(s) : s[k] # SP }
           from == CHOOSE k \in solid : \A l \in solid : k <= l
           to == CHOOSE k \in solid : \A l \in solid : k >= l
       IN SubSeq(s, from, to)

\* data is what the claim has a create or update send for the draft g
Transmits(data, g) ==
  /\ DOMAIN data = FieldNames
  /\ \A f \in FieldNames \ { "date_of_birth" } : data[f] = Strip(g[f])
  /\ data.date_of_birth # E
  /\ g.date_of_birth = E => data.date_of_birth = Null
  /\ g.date_of_birth # E => data.date_of_birth = g.date_of_birth

C14_InFlight ==
  \A c \in InFlight(calls, { "create", "update" }, TRUE)
              \cup InFlight(calls, { "create", "update" }, FALSE) :
    /\ DOMAIN c.data[1] = FieldNames
    /\ c.data[1].date_of_birth # E
    /\ \A f \in FieldNames \ { "date_of_birth" } :
         c.data[1][f] = Strip(c.data[1][f])

C14_Issue ==
  \A c \in BagToSet(calls') :
    (c.live /\ CopiesIn(c, calls') > CopiesIn(c, calls)) =>
      /\ c.op = "create" => Transmits(c.data[1], guestData)
      /\ c.op = "update" => Transmits(c.data[1], guest)

\* C14: a create sends all six fields of the draft and an update all six of
\* the edited copy: first_name, last_name, email, phone and address without
\* their leading and trailing spaces, date_of_birth as null when it is empty
\* and never as an empty string; the calls in flight carry such bodies.
C14_Payload == [] C14_InFlight /\ [][C14_Issue]_vars

\* a create is out for a draft whose phone was typed with a leading space and
\* whose date of birth was left empty
C14_Witness ==
  \E c \in InFlight(calls, { "create" }, TRUE) :
    /\ guestData.phone = << SP, "p" >>
    /\ guestData.date_of_birth = E
    /\ c.data[1].phone = << "p" >>
    /\ c.data[1].date_of_birth = Null

\* the list view has arrived and its fetch is not over: the effect that
\* starts it is pending, the call is out, or the floor is not reached
Arriving ==
  route = "list" /\ (effect \/ Live({ "list" }) > 0 \/ loadingTimer >= 0)

\* C15: from the arrival at the list view to the end of the loading floor of
\* the fetch issued on arrival, the view presents the loading indicator and
\* neither the rows nor "No guests found.", with or without the show-loading
\* signal.
C15_LoadingOnArrival == Arriving => Presented = "list.loading"

\* C16: in a view that stays mounted, loading and updating do not stay set
\* for ever: whenever one is set, given that calls return and timers fire, a
\* later state has it cleared or the view left, whether the call succeeded
\* or failed; so a form disabled by a create or an update is enabled again.
C16_FlagsClear ==
  /\ []<>~(route = "list" /\ loading)
  /\ []<>~(route = "add" /\ loading)
  /\ []<>~(route = "detail" /\ loading)
  /\ []<>~(route = "detail" /\ updating)

\* an update has failed, its floor is over and the form is presented again
\* with the error
C16_Witness ==
  /\ Screen = "detail.form"
  /\ error = ErrUpdate
  /\ ~updating
  /\ updatingTimer = -1
====
